---- MODULE Spec2Model ----
(***************************************************************************)
(* The authentication core of server/app/auth.go: the Login and            *)
(* CreateAdmin handlers and the Authenticator middleware, running as       *)
(* concurrent requests against one user store and one token signer.        *)
(* Every store call is one atomic step, so that requests interleave        *)
(* between the calls exactly where goroutines can.                         *)
(***************************************************************************)
EXTENDS Integers, Sequences, FiniteSets, TLC

(* ---------------- bounds of the model ---------------- *)

\* Number of requests a behaviour handles (each may overlap the others).
NumReqs == 2

\* The clock runs from 0 to MaxTime.
MaxTime == 1

\* Number of calls of the store or of the signer that fail in a behaviour.
MaxFaults == 1

(* ---------------- values ---------------- *)

Reqs == 1..NumReqs

\* Seconds a token stays valid (consts.JWTTokenExpiration), in clock ticks.
TokenTTL == 1

Passwords == {"p", "q"}

\* Request bodies: one that is no JSON object of strings, and JSON objects,
\* each the set of its <<key, value>> members.
Malformed == [ok |-> FALSE, data |-> {}]
Object(d) == [ok |-> TRUE, data |-> d]
Bodies ==
  {Malformed, Object({})}
    \cup {Object({<<"username", "bob">>, <<"password", p>>}) : p \in Passwords}

\* The subject claim of a token: absent, a JSON number, or a string.
NoSub == [type |-> "nil", v |-> ""]
NumSub == [type |-> "number", v |-> "42"]
StrSub(s) == [type |-> "string", v |-> s]

\* The error values of the code.
NoErr == "nil"
ErrNotFound == "ErrNotFound"
ErrStore == "store failure"
ErrUnique == "UNIQUE constraint failed: user.user_name"
ErrSign == "signing failure"
ErrPayload == "Invalid request payload"
ErrFirstTime == "no users created"
ErrInvalidAuth == "invalid authentication"

(* ---------------- the user store (model.UserRepository) ---------------- *)

\* strings.Title on the usernames of the model.
Title(s) ==
  CASE s = "bob" -> "Bob"
    [] OTHER -> s

\* model.User; NoUser stands for the nil pointer.
User(id, userName, password, isAdmin, t) ==
  [id |-> id, userName |-> userName, name |-> Title(userName), email |-> "",
   password |-> password, isAdmin |-> isAdmin, lastLoginAt |-> t]
NoUser ==
  [id |-> 0, userName |-> "", name |-> "", email |-> "", password |-> "",
   isAdmin |-> FALSE, lastLoginAt |-> 0]

CountAll(us, fail) ==
  IF fail THEN [c |-> 0, err |-> ErrStore] ELSE [c |-> Len(us), err |-> NoErr]

FindByUsername(us, name, fail) ==
  IF fail THEN [user |-> NoUser, err |-> ErrStore]
  ELSE IF \E i \in 1..Len(us) : us[i].userName = name
       THEN [user |-> us[CHOOSE i \in 1..Len(us) : us[i].userName = name],
             err |-> NoErr]
       ELSE [user |-> NoUser, err |-> ErrNotFound]

\* Usernames are unique in the store: a second record with a username
\* already present is refused.
Put(us, user, fail) ==
  IF fail THEN [users |-> us, err |-> ErrStore]
  ELSE IF \E i \in 1..Len(us) : us[i].userName = user.userName
  THEN [users |-> us, err |-> ErrUnique]
  ELSE [users |-> Append(us, user), err |-> NoErr]

UpdateLastLoginAt(us, id, t, fail) ==
  IF fail THEN [users |-> us, err |-> ErrStore]
  ELSE [users |-> [i \in 1..Len(us) |->
                     IF us[i].id = id THEN [us[i] EXCEPT !.lastLoginAt = t]
                     ELSE us[i]],
        err |-> NoErr]

(* ---------------- the token signer (engine/auth, jwtauth) ---------------- *)

\* A signed token is its claims, the subject, the issued-at instant and the
\* expiry; the signature is a function of them and of the process's key.
Token(sub, iat, exp) == [kind |-> "signed", sub |-> sub, iat |-> iat, exp |-> exp]

\* No token in the request, and a token whose signature does not verify.
NoToken == [kind |-> "none", sub |-> NoSub, iat |-> 0, exp |-> 0]
BadToken == [kind |-> "bad", sub |-> NoSub, iat |-> 0, exp |-> 0]

\* Mutant: the refresh hands the token back as it came.
TouchTokenReturnsInput(token, iat, t, fail) ==
  IF fail THEN [token |-> NoToken, err |-> ErrSign]
  ELSE [token |-> token, err |-> NoErr]

\* Mutant: the refresh moves the expiry and keeps the issued-at instant.
TouchTokenKeepsIssuedAt(token, iat, t, fail) ==
  IF fail THEN [token |-> NoToken, err |-> ErrSign]
  ELSE [token |-> Token(token.sub, token.iat, t + TokenTTL), err |-> NoErr]

\* Re-signs the claims with the issued-at instant updated to iat, the instant
\* of this signing, and the expiry moved to t + TokenTTL, t being the clock's
\* second at that instant; the subject is kept.
TouchToken(token, iat, t, fail) ==
  IF fail THEN [token |-> NoToken, err |-> ErrSign]
  ELSE [token |-> Token(token.sub, iat, t + TokenTTL), err |-> NoErr]

\* A new token with the user's name as subject, issued at the instant iat.
CreateToken(u, iat, t, fail) ==
  TouchToken(Token(StrSub(u.userName), iat, t), iat, t, fail)

\* jwtauth.FromContext: the token the verifier left in the request context,
\* and its error when none was sent, the signature is wrong or it has expired.
FromContext(token, t) ==
  IF token.kind = "none" THEN [token |-> token, valid |-> FALSE, err |-> "no token found"]
  ELSE IF token.kind = "bad"
       THEN [token |-> token, valid |-> FALSE, err |-> "signature is invalid"]
  ELSE IF t > token.exp
       THEN [token |-> token, valid |-> FALSE, err |-> "token is expired"]
  ELSE [token |-> token, valid |-> TRUE, err |-> NoErr]

(* ---------------- HTTP responses (deluan/rest) ---------------- *)

StatusOK == 200
StatusUnauthorized == 401
StatusForbidden == 403
StatusUnprocessableEntity == 422
StatusInternalServerError == 500

NoResp ==
  [status |-> 0, message |-> "", token |-> NoToken, name |-> "", username |-> "",
   isAdmin |-> FALSE]

RespondWithError(status, message) ==
  [NoResp EXCEPT !.status = status, !.message = message]

MsgLookupFailed == "Unknown error authentication user. Please try again"
MsgSignFailed == "Unknown error authenticating user. Please try again"
MsgInvalidLogin == "Invalid username or password"
MsgForbidden == "Cannot create another first admin"
MsgNotAuthenticated == "Not authenticated"
\* The message of the 200 response, built from the username of the request.
MsgAuthenticated(username) == "User '" \o username \o "' authenticated successfully"

(* ---------------- the pure parts of auth.go ---------------- *)

\* Indexing a Go map[string]string: the value, or "" for an absent key.
MapGet(data, k) ==
  IF \E p \in data : p[1] = k THEN (CHOOSE p \in data : p[1] = k)[2] ELSE ""

getCredentialsFromBody(body) ==
  IF ~body.ok
  THEN [username |-> "", password |-> "", err |-> ErrPayload]
  ELSE [username |-> MapGet(body.data, "username"),
        password |-> MapGet(body.data, "password"), err |-> NoErr]

\* Mutant: a user that is not found is an error.
validateLoginCheckNotFoundIsError(found, password) ==
  IF found.err # NoErr THEN [user |-> NoUser, err |-> found.err, update |-> FALSE]
  ELSE IF found.user.password # password
       THEN [user |-> NoUser, err |-> NoErr, update |-> FALSE]
  ELSE [user |-> found.user, err |-> NoErr, update |-> TRUE]

\* Mutant: the password is not compared.
validateLoginCheckNoPassword(found, password) ==
  IF found.err = ErrNotFound THEN [user |-> NoUser, err |-> NoErr, update |-> FALSE]
  ELSE IF found.err # NoErr THEN [user |-> NoUser, err |-> found.err, update |-> FALSE]
  ELSE [user |-> found.user, err |-> NoErr, update |-> TRUE]

\* Mutant: a wrong password is reported as an error of the lookup.
validateLoginCheckWrongPasswordIsError(found, password) ==
  IF found.err = ErrNotFound THEN [user |-> NoUser, err |-> NoErr, update |-> FALSE]
  ELSE IF found.err # NoErr THEN [user |-> NoUser, err |-> found.err, update |-> FALSE]
  ELSE IF found.user.password # password
       THEN [user |-> NoUser, err |-> "wrong password", update |-> FALSE]
  ELSE [user |-> found.user, err |-> NoErr, update |-> TRUE]

\* validateLogin after its lookup: what the result of FindByUsername and the
\* password comparison decide. "update" means the credentials matched and
\* the last-login update follows.
validateLoginCheck(found, password) ==
  IF found.err = ErrNotFound THEN [user |-> NoUser, err |-> NoErr, update |-> FALSE]
  ELSE IF found.err # NoErr THEN [user |-> NoUser, err |-> found.err, update |-> FALSE]
  ELSE IF found.user.password # password
       THEN [user |-> NoUser, err |-> NoErr, update |-> FALSE]
  ELSE [user |-> found.user, err |-> NoErr, update |-> TRUE]

\* Mutant: every rejection is a 401.
handleLoginRejectAlways401(v) == RespondWithError(StatusUnauthorized, MsgInvalidLogin)

\* handleLogin's answer when validateLogin returns an error or no user.
handleLoginReject(v) ==
  IF v.err # NoErr THEN RespondWithError(StatusInternalServerError, MsgLookupFailed)
  ELSE RespondWithError(StatusUnauthorized, MsgInvalidLogin)

\* handleLogin's answer once validateLogin has returned user u.
handleLoginAnswer(u, username, signed) ==
  IF signed.err # NoErr THEN RespondWithError(StatusInternalServerError, MsgSignFailed)
  ELSE [status |-> StatusOK, message |-> MsgAuthenticated(username), token |-> signed.token,
        name |-> u.name, username |-> username, isAdmin |-> u.isAdmin]

\* Mutant: the gate lets a second user in.
CreateAdminGateOffByOne(cr, cnt) ==
  IF cr.err # NoErr THEN RespondWithError(StatusUnprocessableEntity, cr.err)
  ELSE IF cnt.err # NoErr THEN RespondWithError(StatusInternalServerError, cnt.err)
  ELSE IF cnt.c > 1 THEN RespondWithError(StatusForbidden, MsgForbidden)
  ELSE NoResp

\* Mutant: a failed count does not stop the creation.
CreateAdminGateIgnoringCountErr(cr, cnt) ==
  IF cr.err # NoErr THEN RespondWithError(StatusUnprocessableEntity, cr.err)
  ELSE IF cnt.c > 0 THEN RespondWithError(StatusForbidden, MsgForbidden)
  ELSE NoResp

\* CreateAdmin before it creates the user: the response that ends the
\* request, or NoResp when the user is to be created.
CreateAdminGate(cr, cnt) ==
  IF cr.err # NoErr THEN RespondWithError(StatusUnprocessableEntity, cr.err)
  ELSE IF cnt.err # NoErr THEN RespondWithError(StatusInternalServerError, cnt.err)
  ELSE IF cnt.c > 0 THEN RespondWithError(StatusForbidden, MsgForbidden)
  ELSE NoResp

\* The user createDefaultUser builds.
initialUser(id, username, password, t) == User(id, username, password, TRUE, t)

\* What createDefaultUser returns, given the error of its Put.
createDefaultUserReturn(putErr) == NoErr

\* Mutant: the error of the count is not looked at.
firstTimeIgnoringErr(cnt) == cnt.c = 0

\* Mutant: a count that fails is taken for an empty store.
firstTimeWhenCountFails(cnt) == cnt.c = 0

\* The bootstrap test of getToken.
firstTime(cnt) == cnt.c = 0 /\ cnt.err = NoErr

\* The validity test of getToken.
tokenValid(fc) == fc.err = NoErr /\ fc.valid /\ fc.token.sub # NoSub

getToken(us, sent, t, fail) ==
  LET fc == FromContext(sent, t)
      cnt == CountAll(us, fail)
  IN IF tokenValid(fc) THEN [token |-> fc.token, err |-> NoErr, counted |-> FALSE, cnt |-> cnt]
     ELSE IF firstTime(cnt)
          THEN [token |-> NoToken, err |-> ErrFirstTime, counted |-> TRUE, cnt |-> cnt]
          ELSE [token |-> NoToken, err |-> ErrInvalidAuth, counted |-> TRUE, cnt |-> cnt]

\* The Authenticator's answer to the error of getToken.
AuthenticatorReject(err) ==
  IF err = ErrFirstTime
  THEN [NoResp EXCEPT !.status = StatusUnauthorized, !.message = ErrFirstTime]
  ELSE RespondWithError(StatusUnauthorized, MsgNotAuthenticated)

\* contextWithUser: the type assertion on the subject claim panics unless the
\* claim is a string; the error of the lookup is dropped.
contextWithUser(us, claims, fail) ==
  IF claims.type # "string" THEN [panic |-> TRUE, user |-> NoUser, err |-> NoErr]
  ELSE LET found == FindByUsername(us, claims.v, fail)
       IN [panic |-> FALSE, user |-> found.user, err |-> found.err]

(* ---------------- state ---------------- *)

VARIABLES
  users,    \* the user store: the sequence of its records, in order of creation
  now,      \* the time, in seconds, of the latest reading of the clock
  req,      \* req[r]: the request r, its handler's position and locals
  issued,   \* the tokens the process has signed so far
  overlap,  \* history: whether two requests have been in flight together
  ctor,     \* ctor[k]: where the constructor of handler k is in InitTokenAuth
  once,     \* the sync.Once that guards the initialisation of the token system
  inits     \* number of times the body of the initialisation has run

vars == <<users, now, req, issued, overlap, ctor, once, inits>>

\* The state of the initialisation of the token system.
boot == <<ctor, once, inits>>

\* The constructors of auth.go, each of which calls auth.InitTokenAuth and
\* then returns its handler.
Handlers == {"Login", "CreateAdmin", "Authenticator"}

\* The handler of constructor k exists once the constructor has returned.
Constructed(k) == ctor[k] = "returned"

\* A request not yet received.
Idle ==
  [pc |-> "idle", kind |-> "none", body |-> Malformed, sent |-> NoToken,
   username |-> "", password |-> "", c |-> 0, countErr |-> NoErr,
   findErr |-> NoErr, putErr |-> NoErr, updErr |-> NoErr, signErr |-> NoErr,
   u |-> NoUser, token |-> NoToken, resp |-> NoResp, writes |-> 0,
   header |-> NoToken, next |-> 0, ctxUser |-> NoUser, at |-> 0]

\* Stores the process can be started on: an empty one, and one holding a user.
InitStores == {<< >>, << User(1, "bob", "p", TRUE, 0) >>}

\* Signed tokens that reach the middleware without having been issued by
\* CreateToken: signed with the process's key, with no subject claim or with
\* one that is not a string.
OtherTokens == {Token(NoSub, 0, MaxTime), Token(NumSub, 0, MaxTime)}

\* A token the process signed for bob TokenTTL seconds before time 0.
OldTokens == {Token(StrSub("bob"), 0, 0)}

Init ==
  /\ users \in InitStores
  /\ now = 0
  /\ req = [r \in Reqs |-> Idle]
  /\ issued = {}
  /\ overlap = FALSE
  /\ ctor = [k \in Handlers |-> "returned"]
  /\ once = "done"
  /\ inits = 1

\* The instant of the next signing: no two signings happen in the same
\* instant, so the instants are numbered in the order of the signings, the
\* tokens of OldTokens and OtherTokens having been signed at instant 0.
IssuedAt == Cardinality(issued) + 1

\* The calls that have failed so far, and whether n more may fail.
B2N(b) == IF b THEN 1 ELSE 0
Faults(rq) ==
  B2N(rq.countErr = ErrStore) + B2N(rq.findErr = ErrStore) + B2N(rq.putErr = ErrStore)
    + B2N(rq.updErr = ErrStore) + B2N(rq.signErr = ErrSign)
RECURSIVE FaultsUpTo(_)
FaultsUpTo(n) == IF n = 0 THEN 0 ELSE Faults(req[n]) + FaultsUpTo(n - 1)
MayFail(n) == FaultsUpTo(NumReqs) + n <= MaxFaults

\* The times a reading of the clock can give: time does not go back.
Clock == now..MaxTime

InFlight == {q \in Reqs : req[q].pc \notin {"idle", "done", "panic"}}

\* Request r arrives: the requests are numbered in their order of arrival.
Arrives(r) ==
  /\ req[r].pc = "idle"
  /\ \A q \in Reqs : q < r => req[q].pc # "idle"

\* The request r as it is once its handler has written the response a.
Written(rq, a) == [rq EXCEPT !.pc = "done", !.resp = a, !.writes = @ + 1]

NoteOverlap(r) ==
  overlap' = (overlap \/ InFlight # {})

(* ---------------- Login ---------------- *)

\* The handler Login returns, up to its call of handleLogin.
Login(r) ==
  /\ Constructed("Login")
  /\ Arrives(r)
  /\ \E body \in Bodies :
       LET cr == getCredentialsFromBody(body)
           rq == [req[r] EXCEPT !.kind = "Login", !.body = body]
           rq2 == IF cr.err # NoErr
                  THEN Written(rq, RespondWithError(StatusUnprocessableEntity, cr.err))
                  ELSE [rq EXCEPT !.pc = "validate", !.username = cr.username,
                                  !.password = cr.password]
       IN /\ req' = [req EXCEPT ![r] = rq2]
          /\ NoteOverlap(r)
  /\ UNCHANGED <<users, now, issued, boot>>

\* handleLogin calls validateLogin, which looks the user up and compares the
\* password; without a user handleLogin answers 500 or 401.
validateLogin(r) ==
  /\ req[r].pc = "validate"
  /\ \E fail \in BOOLEAN :
       /\ MayFail(B2N(fail))
       /\ LET found == FindByUsername(users, req[r].username, fail)
              v == validateLoginCheck(found, req[r].password)
              rq == [req[r] EXCEPT !.findErr = found.err, !.u = found.user]
          IN req' = [req EXCEPT ![r] =
                       IF v.update THEN [rq EXCEPT !.pc = "update"]
                       ELSE Written(rq, handleLoginReject(v))]
  /\ UNCHANGED <<users, now, issued, overlap, boot>>

\* The rest of validateLogin: the last-login update, a store call of its own
\* that stamps the time at which it runs; its error is only logged, and the
\* user that was found is returned to handleLogin.
validateLoginUpdate(r) ==
  /\ req[r].pc = "update"
  /\ \E t \in Clock, fail \in BOOLEAN :
       /\ MayFail(B2N(fail))
       /\ now' = t
       /\ LET upd == UpdateLastLoginAt(users, req[r].u.id, t, fail)
          IN /\ users' = upd.users
             /\ req' = [req EXCEPT ![r] = [@ EXCEPT !.updErr = upd.err, !.pc = "login"]]
  /\ UNCHANGED <<issued, overlap, boot>>

\* Mutant: a failed last-login update is answered like a failed lookup.
handleLoginSurfacingUpdateErr(r) ==
  /\ req[r].pc = "login"
  /\ \E t \in Clock, failSign \in BOOLEAN :
       /\ MayFail(B2N(failSign))
       /\ now' = t
       /\ LET signed == CreateToken(req[r].u, IssuedAt, t, failSign)
              rq == [req[r] EXCEPT !.signErr = signed.err, !.token = signed.token]
          IN /\ req' = [req EXCEPT ![r] =
                          IF req[r].updErr # NoErr
                          THEN Written(rq, handleLoginReject([err |-> req[r].updErr]))
                          ELSE Written(rq, handleLoginAnswer(req[r].u, req[r].username,
                                                             signed))]
             /\ issued' = IF signed.err = NoErr THEN issued \cup {signed.token} ELSE issued
  /\ UNCHANGED <<users, overlap, boot>>

\* The rest of handleLogin, with the user validateLogin returned: the token,
\* signed at the time CreateToken runs, and the 200 response.
handleLogin(r) ==
  /\ req[r].pc = "login"
  /\ \E t \in Clock, failSign \in BOOLEAN :
       /\ MayFail(B2N(failSign))
       /\ now' = t
       /\ LET signed == CreateToken(req[r].u, IssuedAt, t, failSign)
              rq == [req[r] EXCEPT !.signErr = signed.err, !.token = signed.token]
          IN /\ req' = [req EXCEPT ![r] =
                          Written(rq, handleLoginAnswer(req[r].u, req[r].username, signed))]
             /\ issued' = IF signed.err = NoErr THEN issued \cup {signed.token} ELSE issued
  /\ UNCHANGED <<users, overlap, boot>>

(* ---------------- CreateAdmin ---------------- *)

\* The handler CreateAdmin returns, up to its count of the users.
CreateAdmin(r) ==
  /\ Constructed("CreateAdmin")
  /\ Arrives(r)
  /\ \E body \in Bodies, fail \in BOOLEAN :
       /\ MayFail(B2N(fail))
       /\ LET cr == getCredentialsFromBody(body)
              cnt == CountAll(users, fail)
              rq == [req[r] EXCEPT !.kind = "CreateAdmin", !.body = body]
              rqc == [rq EXCEPT !.username = cr.username, !.password = cr.password,
                                !.c = cnt.c, !.countErr = cnt.err]
              a == CreateAdminGate(cr, cnt)
              rq2 == IF cr.err # NoErr THEN Written(rq, a)
                     ELSE IF a # NoResp THEN Written(rqc, a)
                     ELSE [rqc EXCEPT !.pc = "create"]
          IN /\ req' = [req EXCEPT ![r] = rq2]
             /\ NoteOverlap(r)
  /\ UNCHANGED <<users, now, issued, boot>>

\* CreateAdmin calls createDefaultUser, which first reads the clock for the
\* user it is about to build.
createDefaultUser(r) ==
  /\ req[r].pc = "create"
  /\ \E t \in Clock :
       /\ now' = t
       /\ req' = [req EXCEPT ![r] = [@ EXCEPT !.at = t, !.pc = "put"]]
  /\ UNCHANGED <<users, issued, overlap, boot>>

\* The rest of createDefaultUser: the store call Put of the user built with
\* the time read before; unless createDefaultUser returns an error,
\* CreateAdmin goes on to handleLogin.
createDefaultUserPut(r) ==
  /\ req[r].pc = "put"
  /\ \E fail \in BOOLEAN :
       /\ MayFail(B2N(fail))
       /\ LET put == Put(users, initialUser(Len(users) + 1, req[r].username,
                                            req[r].password, req[r].at), fail)
              err == createDefaultUserReturn(put.err)
              rq == [req[r] EXCEPT !.putErr = put.err]
          IN /\ users' = put.users
             /\ req' = [req EXCEPT ![r] =
                          IF err # NoErr
                          THEN Written(rq, RespondWithError(StatusInternalServerError, err))
                          ELSE [rq EXCEPT !.pc = "validate"]]
  /\ UNCHANGED <<now, issued, overlap, boot>>

(* ---------------- Authenticator ---------------- *)

\* The tokens a client can send.
Presentable == {NoToken, BadToken} \cup OtherTokens \cup OldTokens \cup issued

\* The middleware up to its call of contextWithUser: getToken and the two
\* rejections.
Authenticator(r) ==
  /\ Constructed("Authenticator")
  /\ Arrives(r)
  /\ \E sent \in Presentable, t \in Clock, fail \in BOOLEAN :
       /\ MayFail(B2N(fail))
       /\ now' = t
       /\ LET g == getToken(users, sent, t, fail)
              rq == [req[r] EXCEPT !.kind = "Authenticator", !.sent = sent,
                                   !.token = g.token]
              rqc == [rq EXCEPT !.c = g.cnt.c, !.countErr = g.cnt.err]
              rq2 == IF g.err # NoErr THEN Written(rqc, AuthenticatorReject(g.err))
                     ELSE [rq EXCEPT !.pc = "context"]
          IN /\ req' = [req EXCEPT ![r] = rq2]
             /\ NoteOverlap(r)
  /\ UNCHANGED <<users, issued, boot>>

\* The middleware calls contextWithUser, whose lookup is a store call; the
\* type assertion on the subject claim panics before it.
AuthenticatorContext(r) ==
  /\ req[r].pc = "context"
  /\ \E fail \in BOOLEAN :
       /\ MayFail(B2N(fail))
       /\ LET ctx == contextWithUser(users, req[r].token.sub, fail)
          IN req' = [req EXCEPT ![r] =
                       IF ctx.panic THEN [@ EXCEPT !.pc = "panic"]
                       ELSE [@ EXCEPT !.findErr = ctx.err, !.ctxUser = ctx.user,
                                      !.pc = "touch"]]
  /\ UNCHANGED <<users, now, issued, overlap, boot>>

\* Mutant: a refresh that fails is not looked at; the request is forwarded
\* with the token it came with.
AuthenticatorForwardIgnoringSignErr(r) ==
  /\ req[r].pc = "touch"
  /\ \E t \in Clock, failSign \in BOOLEAN :
       /\ MayFail(B2N(failSign))
       /\ now' = t
       /\ LET touched == TouchToken(req[r].token, IssuedAt, t, failSign)
              rqs == [req[r] EXCEPT !.signErr = touched.err]
          IN /\ req' = [req EXCEPT ![r] =
                          [rqs EXCEPT !.pc = "done",
                                      !.header = IF touched.err # NoErr
                                                 THEN req[r].token
                                                 ELSE touched.token,
                                      !.next = @ + 1]]
             /\ issued' = IF touched.err = NoErr
                          THEN issued \cup {touched.token} ELSE issued
  /\ UNCHANGED <<users, overlap, boot>>

\* Mutant: a forwarded request counts as a login of its user.
AuthenticatorForwardCountingLogin(r) ==
  /\ req[r].pc = "touch"
  /\ \E t \in Clock, failSign \in BOOLEAN :
       /\ MayFail(B2N(failSign))
       /\ now' = t
       /\ LET touched == TouchToken(req[r].token, IssuedAt, t, failSign)
              rqs == [req[r] EXCEPT !.signErr = touched.err]
          IN /\ req' = [req EXCEPT ![r] =
                          IF touched.err # NoErr
                          THEN Written(rqs, RespondWithError(StatusUnauthorized,
                                                             MsgNotAuthenticated))
                          ELSE [rqs EXCEPT !.pc = "done", !.header = touched.token,
                                           !.next = @ + 1]]
             /\ issued' = IF touched.err = NoErr
                          THEN issued \cup {touched.token} ELSE issued
             /\ users' = UpdateLastLoginAt(users, req[r].ctxUser.id, t, FALSE).users
  /\ UNCHANGED <<overlap, boot>>

\* The rest of the middleware: TouchToken, at the time it runs, and either
\* the rejection or the header and the call of the next handler.
AuthenticatorForward(r) ==
  /\ req[r].pc = "touch"
  /\ \E t \in Clock, failSign \in BOOLEAN :
       /\ MayFail(B2N(failSign))
       /\ now' = t
       /\ LET touched == TouchToken(req[r].token, IssuedAt, t, failSign)
              rqs == [req[r] EXCEPT !.signErr = touched.err]
          IN /\ req' = [req EXCEPT ![r] =
                          IF touched.err # NoErr
                          THEN Written(rqs, RespondWithError(StatusUnauthorized,
                                                             MsgNotAuthenticated))
                          ELSE [rqs EXCEPT !.pc = "done", !.header = touched.token,
                                           !.next = @ + 1]]
             /\ issued' = IF touched.err = NoErr
                          THEN issued \cup {touched.token} ELSE issued
  /\ UNCHANGED <<users, overlap, boot>>

Next ==
  \/ \E r \in Reqs : Login(r)
  \/ \E r \in Reqs : validateLogin(r)
  \/ \E r \in Reqs : validateLoginUpdate(r)
  \/ \E r \in Reqs : handleLogin(r)
  \/ \E r \in Reqs : CreateAdmin(r)
  \/ \E r \in Reqs : createDefaultUser(r)
  \/ \E r \in Reqs : createDefaultUserPut(r)
  \/ \E r \in Reqs : Authenticator(r)
  \/ \E r \in Reqs : AuthenticatorContext(r)
  \/ \E r \in Reqs : AuthenticatorForward(r)

Spec == Init /\ [][Next]_vars

\* The process serving Login requests only.
NextLogin ==
  \/ \E r \in Reqs : Login(r)
  \/ \E r \in Reqs : validateLogin(r)
  \/ \E r \in Reqs : validateLoginUpdate(r)
  \/ \E r \in Reqs : handleLogin(r)

SpecLogin == Init /\ [][NextLogin]_vars

\* The process serving CreateAdmin requests only.
NextAdmin ==
  \/ \E r \in Reqs : CreateAdmin(r)
  \/ \E r \in Reqs : createDefaultUser(r)
  \/ \E r \in Reqs : createDefaultUserPut(r)
  \/ \E r \in Reqs : validateLogin(r)
  \/ \E r \in Reqs : validateLoginUpdate(r)
  \/ \E r \in Reqs : handleLogin(r)

SpecAdmin == Init /\ [][NextAdmin]_vars

\* The process serving logins and requests to protected routes.
NextAuth ==
  \/ \E r \in Reqs : Login(r)
  \/ \E r \in Reqs : validateLogin(r)
  \/ \E r \in Reqs : validateLoginUpdate(r)
  \/ \E r \in Reqs : handleLogin(r)
  \/ \E r \in Reqs : Authenticator(r)
  \/ \E r \in Reqs : AuthenticatorContext(r)
  \/ \E r \in Reqs : AuthenticatorForward(r)

SpecAuth == Init /\ [][NextAuth]_vars

(* ---------------- the constructors and auth.InitTokenAuth ---------------- *)

\* Mutant: a caller that finds the initialisation running does not wait.
onceDoNoWait(o) == IF o = "fresh" THEN "body" ELSE "returned"

\* sync.Once.Do, by the state of the Once: the first caller runs the body, a
\* caller that arrives while the body runs waits for it, and a caller that
\* arrives after it has run returns at once.
onceDo(o) ==
  IF o = "done" THEN "returned"
  ELSE IF o = "fresh" THEN "body"
  ELSE "blocked"

\* The constructor of handler k calls auth.InitTokenAuth, which enters
\* once.Do; a caller that waits enters again when the body has finished.
InitTokenAuth(k) ==
  /\ ctor[k] \in {"new", "blocked"}
  /\ onceDo(once) # ctor[k]
  /\ ctor' = [ctor EXCEPT ![k] = onceDo(once)]
  /\ once' = IF onceDo(once) = "body" THEN "running" ELSE once
  /\ UNCHANGED <<users, now, req, issued, overlap, inits>>

\* The body of the initialisation: it sets the signing key and the token
\* system up, and the constructor that ran it returns.
InitTokenAuthBody(k) ==
  /\ ctor[k] = "body"
  /\ inits' = inits + 1
  /\ once' = "done"
  /\ ctor' = [ctor EXCEPT ![k] = "returned"]
  /\ UNCHANGED <<users, now, req, issued, overlap>>

\* The process before any constructor has run.
InitBoot ==
  /\ users \in InitStores
  /\ now = 0
  /\ req = [r \in Reqs |-> Idle]
  /\ issued = {}
  /\ overlap = FALSE
  /\ ctor = [k \in Handlers |-> "new"]
  /\ once = "fresh"
  /\ inits = 0

\* The process from its start: the three constructors run in any
\* interleaving, and the handlers of those that have returned serve requests.
NextInit ==
  \/ \E k \in Handlers : InitTokenAuth(k)
  \/ \E k \in Handlers : InitTokenAuthBody(k)
  \/ \E r \in Reqs : Login(r)
  \/ \E r \in Reqs : validateLogin(r)
  \/ \E r \in Reqs : validateLoginUpdate(r)
  \/ \E r \in Reqs : handleLogin(r)
  \/ \E r \in Reqs : CreateAdmin(r)
  \/ \E r \in Reqs : createDefaultUser(r)
  \/ \E r \in Reqs : createDefaultUserPut(r)
  \/ \E r \in Reqs : Authenticator(r)
  \/ \E r \in Reqs : AuthenticatorContext(r)
  \/ \E r \in Reqs : AuthenticatorForward(r)

SpecInit == InitBoot /\ [][NextInit]_vars

(* ---------------- properties ---------------- *)

Done(r) == req[r].pc = "done"
Decoded(r) == req[r].body.ok
NoFaults == FaultsUpTo(NumReqs) = 0

\* The CreateAdmin request r has stored its user.
Created(r) ==
  /\ req[r].kind = "CreateAdmin"
  /\ req[r].pc \in {"validate", "update", "login", "done"}
  /\ Decoded(r) /\ req[r].countErr = NoErr /\ req[r].c = 0
  /\ req[r].putErr = NoErr

\* C1: among concurrent CreateAdmin requests started on an empty store, at
\* most one creates a user.
C1_AtMostOneFirstAdmin == Cardinality({r \in Reqs : Created(r)}) <= 1

\* C2: two CreateAdmin calls, one after the other, on an empty store with
\* nothing failing: the first is answered 200 with a token, the second 403,
\* and the store then holds exactly one user, an admin with the first call's
\* username.
TwoAdminCallsInSequence(r1, r2) ==
  /\ r1 < r2
  /\ \A q \in Reqs : IF q \in {r1, r2}
                     THEN req[q].kind = "CreateAdmin" /\ Done(q) /\ Decoded(q)
                     ELSE req[q].pc = "idle"
  /\ ~overlap
  /\ NoFaults
  /\ req[r1].c = 0

C2_SequentialCreateAdmin ==
  \A r1 \in Reqs, r2 \in Reqs :
    TwoAdminCallsInSequence(r1, r2) =>
      /\ req[r1].resp.status = StatusOK
      /\ req[r1].resp.token.kind = "signed"
      /\ req[r1].writes = 1
      /\ req[r2].resp.status = StatusForbidden
      /\ req[r2].writes = 1
      /\ Len(users) = 1
      /\ users[1].isAdmin
      /\ users[1].userName = req[r1].username

C2_Witness ==
  \E r1 \in Reqs, r2 \in Reqs :
    /\ TwoAdminCallsInSequence(r1, r2)
    /\ req[r1].username = "bob"
    /\ req[r2].resp.status = StatusForbidden

\* C3: on an empty store, a Login request carrying credentials is answered
\* with the bootstrap signal "no users created".
C3_LoginOnEmptyStoreSignalsBootstrap ==
  \A r \in Reqs :
    (req[r].kind = "Login" /\ Done(r) /\ Decoded(r) /\ Len(users) = 0) =>
      /\ req[r].resp.message = ErrFirstTime
      /\ req[r].resp.message # MsgInvalidLogin

\* C4: when the Put of createDefaultUser fails, CreateAdmin answers 500 with
\* the error's message, and no login response is written.
C4_PutFailureIs500 ==
  \A r \in Reqs :
    (req[r].kind = "CreateAdmin" /\ Done(r) /\ Decoded(r) /\ req[r].countErr = NoErr
       /\ req[r].c = 0 /\ req[r].putErr # NoErr) =>
      /\ req[r].resp.status = StatusInternalServerError
      /\ req[r].resp.message = req[r].putErr

\* C5: the middleware calls the next handler only for a token that verified
\* and whose subject claim is a non-empty string.
C5_ForwardOnlyNonEmptySubject ==
  \A r \in Reqs :
    req[r].next > 0 =>
      /\ req[r].sent.kind = "signed"
      /\ req[r].token = req[r].sent
      /\ req[r].sent.sub.type = "string"
      /\ req[r].sent.sub.v # ""

\* C6: a request the middleware rejects for its token is answered 401, with
\* "no users created" exactly when the count of the users at that moment
\* succeeds and is zero, and with "Not authenticated" otherwise.
RejectsForToken(r) ==
  /\ req[r].pc = "idle"
  /\ req'[r].kind = "Authenticator"
  /\ req'[r].pc = "done"

C6_BootstrapRejectIffNoUsers ==
  [][\A r \in Reqs :
       RejectsForToken(r) =>
         /\ req'[r].resp.status = StatusUnauthorized
         /\ req'[r].writes = 1 /\ req'[r].next = 0
         /\ req'[r].resp.message = ErrFirstTime
              <=> (Len(users) = 0 /\ req'[r].countErr = NoErr)
         /\ req'[r].resp.message # ErrFirstTime
              => req'[r].resp.message = MsgNotAuthenticated]_vars

C6_Witness ==
  \E r1 \in Reqs, r2 \in Reqs :
    /\ req[r1].kind = "Authenticator" /\ Done(r1)
    /\ req[r1].resp.message = ErrFirstTime
    /\ req[r2].kind = "Authenticator" /\ Done(r2)
    /\ req[r2].resp.message = MsgNotAuthenticated
    /\ req[r2].countErr = ErrStore

\* The user the middleware bound to the context of r is the stored user named
\* by the token's subject, or nil when the lookup failed.
BindsUser(r) ==
  IF req[r].findErr = NoErr
  THEN /\ req[r].ctxUser.userName = req[r].sent.sub.v
       /\ \E i \in 1..Len(users) :
            users[i].id = req[r].ctxUser.id /\ users[i].userName = req[r].sent.sub.v
  ELSE req[r].ctxUser = NoUser

\* A request whose token getToken accepted, whose subject is a string and
\* whose refresh did not fail is forwarded, whatever the lookup did.
LookupNeverRejects ==
  \A r \in Reqs :
    (/\ req[r].kind = "Authenticator"
     /\ req[r].pc \in {"done", "panic"}
     /\ req[r].token.kind = "signed"
     /\ req[r].token.sub.type = "string"
     /\ req[r].signErr = NoErr)
      => (Done(r) /\ req[r].next = 1 /\ req[r].writes = 0)

LoginAnswerIs(r, status, message) ==
  /\ req[r].resp.status = status
  /\ req[r].resp.message = message
  /\ (status = StatusOK) <=> (req[r].resp.token.kind = "signed")

Absent(r) ==
  req[r].findErr = ErrNotFound \/ req[r].u.password # req[r].password

\* A 200 goes to a stored user with the name and the password given.
OnlyForStoredCredentials(r) ==
  req[r].resp.status = StatusOK =>
    /\ req[r].resp.token.sub = StrSub(req[r].username)
    /\ \E i \in 1..Len(users) :
         /\ users[i].id = req[r].u.id
         /\ users[i].userName = req[r].username
         /\ users[i].password = req[r].password

\* C8 as stated: a Login request gets exactly one response: 422 for a body
\* that does not decode, else 500 for a failed lookup, else 401 when
\* validation returns no user, else 200 with a token.
C8_LoginCases ==
  \A r \in Reqs :
    (req[r].kind = "Login" /\ Done(r)) =>
      /\ req[r].writes = 1
      /\ IF ~Decoded(r) THEN LoginAnswerIs(r, StatusUnprocessableEntity, ErrPayload)
         ELSE IF req[r].findErr = ErrStore
              THEN LoginAnswerIs(r, StatusInternalServerError, MsgLookupFailed)
         ELSE IF Absent(r) THEN LoginAnswerIs(r, StatusUnauthorized, MsgInvalidLogin)
         ELSE LoginAnswerIs(r, StatusOK, MsgAuthenticated(req[r].username))
      /\ OnlyForStoredCredentials(r)

\* C8, amended: between the 401 and the 200 there is a fifth case, 500 with a
\* generic message when the token cannot be signed.
C8_LoginCasesWithSigning ==
  \A r \in Reqs :
    (req[r].kind = "Login" /\ Done(r)) =>
      /\ req[r].writes = 1
      /\ IF ~Decoded(r) THEN LoginAnswerIs(r, StatusUnprocessableEntity, ErrPayload)
         ELSE IF req[r].findErr = ErrStore
              THEN LoginAnswerIs(r, StatusInternalServerError, MsgLookupFailed)
         ELSE IF Absent(r) THEN LoginAnswerIs(r, StatusUnauthorized, MsgInvalidLogin)
         ELSE IF req[r].signErr # NoErr
              THEN LoginAnswerIs(r, StatusInternalServerError, MsgSignFailed)
         ELSE LoginAnswerIs(r, StatusOK, MsgAuthenticated(req[r].username))
      /\ OnlyForStoredCredentials(r)

C8_Witness ==
  \E r1 \in Reqs, r2 \in Reqs :
    /\ req[r1].kind = "Login" /\ Done(r1) /\ req[r1].resp.status = StatusOK
    /\ req[r2].kind = "Login" /\ Done(r2) /\ req[r2].resp.status = StatusUnauthorized
    /\ req[r2].findErr = NoErr

\* C9: validateLogin returns the stored user exactly when a user with the
\* name given exists with the password given (and the lookup works); for an
\* unknown name or another password it returns no user and no error; it
\* returns an error exactly when the lookup fails otherwise than not-found.
HasCredentials(us, username, password) ==
  \E i \in 1..Len(us) : us[i].userName = username /\ us[i].password = password

C9_ValidateLogin ==
  [][/\ \A r \in Reqs :
       (req[r].pc = "validate" /\ req'[r].pc # "validate") =>
         LET has == HasCredentials(users, req[r].username, req[r].password)
             lookupFailed == req'[r].findErr = ErrStore
             returnsUser == req'[r].pc = "update"
             returnsError == req'[r].resp.status = StatusInternalServerError
             returnsAbsent == req'[r].resp.status = StatusUnauthorized
         IN /\ returnsUser <=> (has /\ ~lookupFailed)
            /\ returnsUser =>
                 /\ \E i \in 1..Len(users) : users[i] = req'[r].u
                 /\ req'[r].u.userName = req[r].username
                 /\ req'[r].u.password = req[r].password
            /\ returnsError <=> lookupFailed
            /\ returnsAbsent <=> (~has /\ ~lookupFailed)
     /\ \A r \in Reqs :
          (req[r].pc = "update" /\ req'[r].pc # "update") =>
            (req'[r].pc = "login" /\ req'[r].u = req[r].u /\ req'[r].writes = 0)]_vars

C9_Witness ==
  \E r1 \in Reqs, r2 \in Reqs :
    /\ req[r1].pc = "login" /\ req[r1].u.userName = "bob"
    /\ req[r1].password = req[r1].u.password
    /\ Done(r2) /\ req[r2].username = "bob" /\ req[r2].findErr = NoErr
    /\ req[r2].resp.status = StatusUnauthorized

\* C10: a user's last-login time changes only in the step of a login attempt
\* for that user whose password matched; every other step, the failed logins
\* among them, leaves every last-login time as it was.
C10_LastLoginOnlyOnSuccess ==
  [][\A i \in 1..Len(users) :
       users'[i].lastLoginAt # users[i].lastLoginAt =>
         \E r \in Reqs :
           /\ req[r].pc = "update" /\ req'[r].pc = "login"
           /\ req'[r].updErr = NoErr
           /\ req[r].u.id = users[i].id
           /\ users[i].userName = req[r].username
           /\ users[i].password = req[r].password]_vars

C10_Witness ==
  \E r1 \in Reqs, r2 \in Reqs :
    /\ req[r1].kind = "Login" /\ Done(r1) /\ req[r1].username = "bob"
    /\ req[r1].resp.status = StatusUnauthorized
    /\ req[r2].kind = "Login" /\ Done(r2) /\ req[r2].username = "bob"
    /\ req[r2].resp.status = StatusOK /\ req[r2].updErr = NoErr
    /\ \E i \in 1..Len(users) : users[i].userName = "bob" /\ users[i].lastLoginAt > 0

\* C11: CreateAdmin creates a user only for a body that decoded and a count
\* that succeeded and gave zero; the step in which it answers 422, 500 (the
\* count failed) or 403 is its only step and leaves the store as it was.
RejectsForCreateAdmin(r) ==
  /\ req[r].pc = "idle"
  /\ req'[r].kind = "CreateAdmin"
  /\ req'[r].pc = "done"

C11_CreateAdminOnlyOnZeroCount ==
  [][/\ Len(users') > Len(users) =>
          \E r \in Reqs :
            /\ req[r].kind = "CreateAdmin" /\ req[r].pc = "put"
            /\ req'[r].pc = "validate"
            /\ req[r].body.ok /\ req[r].countErr = NoErr /\ req[r].c = 0
            /\ users' = Append(users, users'[Len(users')])
     /\ \A r \in Reqs :
          /\ RejectsForCreateAdmin(r) =>
               /\ users' = users
               /\ req'[r].writes = 1
               /\ req'[r].putErr = NoErr /\ req'[r].updErr = NoErr
               /\ IF ~req'[r].body.ok
                  THEN req'[r].resp.status = StatusUnprocessableEntity
                  ELSE IF req'[r].countErr # NoErr
                  THEN req'[r].resp.status = StatusInternalServerError
                  ELSE /\ req'[r].resp.status = StatusForbidden
                       /\ req'[r].c > 0
          /\ (req[r].pc = "idle" /\ req'[r].kind = "CreateAdmin"
                /\ req'[r].pc # "done") =>
               /\ users' = users
               /\ req'[r].body.ok /\ req'[r].countErr = NoErr /\ req'[r].c = 0]_vars

C11_Witness ==
  \E r1 \in Reqs, r2 \in Reqs :
    /\ Created(r1) /\ Len(users) = 1 /\ users[1].userName = req[r1].username
    /\ req[r2].kind = "CreateAdmin" /\ Done(r2)
    /\ req[r2].resp.status \in {StatusForbidden, StatusInternalServerError}
    /\ req[r2].putErr = NoErr /\ req[r2].u = NoUser

\* C12: when TouchToken fails in the middleware, for a token getToken had
\* accepted, the request is answered 401 "Not authenticated", the next
\* handler is not called, no Authorization header is set, and the request
\* takes no further step (the refresh is not tried again).
RefreshFailed(rq) ==
  rq.kind = "Authenticator" /\ rq.signErr = ErrSign

C12_RefreshFailureRejects ==
  [][\A r \in Reqs :
       RefreshFailed(req'[r]) =>
         /\ req'[r].pc = "done"
         /\ req'[r].token.kind = "signed"
         /\ req'[r].resp = RespondWithError(StatusUnauthorized, MsgNotAuthenticated)
         /\ req'[r].writes = 1
         /\ req'[r].next = 0
         /\ req'[r].header = NoToken
         /\ RefreshFailed(req[r]) => req'[r] = req[r]]_vars

C12_Witness ==
  \E r \in Reqs :
    /\ RefreshFailed(req[r]) /\ Done(r)
    /\ req[r].sent \in OldTokens \cup issued
    /\ req[r].ctxUser.userName = "bob"

\* C13: a login for a name that is not in the store and a login for a name
\* that is, with a wrong password, get the same response: on the store as it
\* is and on the store that differs from it only by not holding the user, the
\* response is the same 401 and both stores are left as they were.
WithoutUser(us, username) == SelectSeq(us, LAMBDA u : u.userName # username)

\* What a Login with these credentials answers on the store us when it is
\* refused, the lookup working.
RefusalOn(us, username, password) ==
  handleLoginReject(validateLoginCheck(FindByUsername(us, username, FALSE), password))

C13_UnknownUserLikeWrongPassword ==
  [][\A r \in Reqs :
       (/\ req[r].pc = "validate" /\ req'[r].pc # "validate"
        /\ req'[r].findErr # ErrStore
        /\ ~HasCredentials(users, req[r].username, req[r].password)) =>
         LET twin == WithoutUser(users, req[r].username)
         IN /\ req'[r].pc = "done"
            /\ req'[r].resp.status = StatusUnauthorized
            /\ req'[r].resp = RefusalOn(twin, req[r].username, req[r].password)
            /\ req'[r].resp = RefusalOn(users, req[r].username, req[r].password)
            /\ req'[r].writes = 1
            /\ users' = users]_vars

C13_Witness ==
  \E r \in Reqs :
    /\ req[r].kind = "Login" /\ Done(r)
    /\ req[r].findErr = NoErr /\ req[r].u.userName = "bob"
    /\ req[r].password # req[r].u.password
    /\ WithoutUser(users, "bob") # users
    /\ req[r].resp = RefusalOn(WithoutUser(users, "bob"), "bob", req[r].password)

\* C14: no request ends in a panic; a finished Login or CreateAdmin request
\* has written exactly one response, and a finished middleware request has
\* either called the next handler once and written nothing, or written one
\* 401 and not called it; this for every token getToken accepts, a token
\* whose subject claim is not a string among them.
OneTerminalOutcome(rq) ==
  IF rq.kind = "Authenticator"
  THEN \/ rq.next = 1 /\ rq.writes = 0
       \/ rq.next = 0 /\ rq.writes = 1 /\ rq.resp.status = StatusUnauthorized
  ELSE rq.writes = 1 /\ rq.next = 0

C14_OneOutcomeNoPanic ==
  \A r \in Reqs :
    /\ req[r].pc # "panic"
    /\ Done(r) => OneTerminalOutcome(req[r])
    /\ ~Done(r) => (req[r].writes = 0 /\ req[r].next = 0)

\* C15: the body of the initialisation of the token system runs once, however
\* the three constructors interleave: it never runs a second time, a
\* constructor returns only when it has run, a trigger after it has run
\* changes nothing but the caller's own position, and no handler takes a
\* step before it has run to its end.
C15_InitExactlyOnce ==
  [][/\ inits' <= 1
     /\ inits' # inits => (inits = 0 /\ once = "running" /\ once' = "done")
     /\ \A k \in Handlers :
          /\ ctor'[k] = "returned" => (inits' = 1 /\ once' = "done")
          /\ (ctor[k] = "new" /\ once = "done" /\ ctor'[k] # ctor[k]) =>
               (ctor'[k] = "returned" /\ inits' = inits /\ once' = once)
     /\ Cardinality({k \in Handlers : ctor'[k] = "body"}) <= 1
     /\ req' # req => (once = "done" /\ inits = 1)]_vars

C15_Witness ==
  /\ \A k \in Handlers : ctor[k] = "returned"
  /\ inits = 1 /\ once = "done"
  /\ \E r1 \in Reqs, r2 \in Reqs :
       /\ req[r1].kind = "Login" /\ req[r1].resp.status = StatusOK
       /\ req[r2].kind = "Authenticator" /\ req[r2].next = 1

\* The token of a 200 response verifies, while it has not expired, with the
\* username of the user it was issued for as its subject.
IssuedTokenNamesUser(r) ==
  (req[r].kind \in {"Login", "CreateAdmin"} /\ req[r].resp.status = StatusOK) =>
    LET fc == FromContext(req[r].resp.token, req[r].resp.token.exp)
    IN /\ tokenValid(fc)
       /\ fc.token.sub = StrSub(req[r].u.userName)
       /\ req[r].u.userName = req[r].username
       /\ req[r].resp.token \in issued

\* The token a forwarded request carries in its header is a signed token of
\* the process with the subject of the token that was sent.
RefreshKeepsSubject(r) ==
  req[r].next > 0 =>
    /\ req[r].header.kind = "signed"
    /\ req[r].header.sub = req[r].sent.sub
    /\ req[r].header \in issued

UpdateFailed(r) ==
  /\ req[r].pc = "update" /\ req'[r].pc = "login"
  /\ req'[r].updErr = ErrStore

AnswersAfterFailedUpdate(r) ==
  /\ req[r].pc = "login" /\ req'[r].pc = "done"
  /\ req[r].updErr = ErrStore

C17_UpdateFailureNotSurfaced ==
  [][\A r \in Reqs :
       /\ UpdateFailed(r) =>
            LET updated == UpdateLastLoginAt(users, req[r].u.id, now', FALSE).users
            IN /\ req'[r] = [req[r] EXCEPT !.updErr = ErrStore, !.pc = "login"]
               /\ users' = users
               /\ Len(updated) = Len(users')
               /\ \A i \in 1..Len(users') :
                    /\ [updated[i] EXCEPT !.lastLoginAt = 0]
                         = [users'[i] EXCEPT !.lastLoginAt = 0]
                    /\ updated[i] # users'[i] =>
                         (users'[i].id = req[r].u.id /\ updated[i].lastLoginAt = now')
       /\ AnswersAfterFailedUpdate(r) =>
            LET signed == CreateToken(req[r].u, IssuedAt, now', req'[r].signErr # NoErr)
            IN /\ req'[r].resp = handleLoginAnswer(req[r].u, req[r].username, signed)
               /\ req'[r].writes = 1
               /\ req'[r].signErr = NoErr =>
                    /\ req'[r].resp.status = StatusOK
                    /\ req'[r].resp.token
                         = Token(StrSub(req[r].u.userName), IssuedAt, now' + TokenTTL)
                    /\ req'[r].resp.token \in issued'
               /\ users' = users]_vars

C17_Witness ==
  \E r \in Reqs :
    /\ req[r].kind = "Login" /\ Done(r)
    /\ req[r].updErr = ErrStore
    /\ req[r].resp.status = StatusOK /\ req[r].resp.token.kind = "signed"
    /\ now > 0
    /\ \E i \in 1..Len(users) : users[i].id = req[r].u.id /\ users[i].lastLoginAt = 0

\* A CreateAdmin request arrives while no other request is in flight and the
\* store holds a user.
LaterCreateAdmin(r) ==
  /\ Len(users) >= 1
  /\ InFlight = {}
  /\ req[r].pc = "idle" /\ req'[r].kind = "CreateAdmin"

\* The number of users never goes down, and with a user in the store the
\* first-time check is false and the middleware does not answer "no users
\* created".
BootstrapStaysClosed ==
  /\ Len(users') >= Len(users)
  /\ Len(users) >= 1 =>
       /\ \A fail \in BOOLEAN : ~firstTime(CountAll(users, fail))
       /\ \A r \in Reqs :
            (req[r].pc = "idle" /\ req'[r].kind = "Authenticator") =>
              req'[r].resp.message # ErrFirstTime

\* C18 as stated: bootstrap mode does not reopen, and once the store holds a
\* user every later CreateAdmin request that overlaps no other is answered 403.
C18_LaterCreateAdminIs403 ==
  [][/\ BootstrapStaysClosed
     /\ \A r \in Reqs :
          LaterCreateAdmin(r) =>
            /\ req'[r].pc = "done"
            /\ req'[r].resp = RespondWithError(StatusForbidden, MsgForbidden)
            /\ users' = users]_vars

\* C18, amended: such a CreateAdmin request creates no user and is answered
\* 403 when its body decodes and its count succeeds, 422 when the body does
\* not decode, and 500 when the count fails.
C18_LaterCreateAdminCreatesNothing ==
  [][/\ BootstrapStaysClosed
     /\ \A r \in Reqs :
          LaterCreateAdmin(r) =>
            /\ req'[r].pc = "done"
            /\ req'[r].writes = 1
            /\ users' = users
            /\ req'[r].resp =
                 IF ~req'[r].body.ok
                 THEN RespondWithError(StatusUnprocessableEntity, ErrPayload)
                 ELSE IF req'[r].countErr # NoErr
                 THEN RespondWithError(StatusInternalServerError, req'[r].countErr)
                 ELSE RespondWithError(StatusForbidden, MsgForbidden)]_vars

\* An admin was created, after which a CreateAdmin request with a body that
\* decodes was answered 403.
C18_Witness ==
  \E r1 \in Reqs, r2 \in Reqs :
    /\ r1 < r2
    /\ Created(r1) /\ Done(r1) /\ Len(users) >= 1
    /\ req[r2].kind = "CreateAdmin" /\ Done(r2) /\ req[r2].body.ok
    /\ req[r2].resp.status = StatusForbidden
    /\ ~overlap

\* C19: no step of the middleware changes the user store: whether it forwards
\* the request, rejects it with "no users created" or "Not authenticated", or
\* fails to refresh the token, the users and their last-login times are after
\* the step what they were before it.
MiddlewareStep(r) ==
  /\ req'[r] # req[r]
  /\ req'[r].kind = "Authenticator"

C19_MiddlewareLeavesStore ==
  [][\A r \in Reqs : MiddlewareStep(r) => users' = users]_vars

\* A forwarded request of bob and a rejected request are done, and bob's
\* last-login time is the one the store started with although time has passed.
C19_Witness ==
  \E r1 \in Reqs, r2 \in Reqs :
    /\ req[r1].kind = "Authenticator" /\ req[r1].next = 1
    /\ req[r1].ctxUser.userName = "bob"
    /\ req[r2].kind = "Authenticator" /\ Done(r2) /\ req[r2].writes = 1
    /\ now > 0
    /\ users = << User(1, "bob", "p", TRUE, 0) >>

====
